---- MODULE Spec2Model ----
(***************************************************************************)
(* The client-side data loader of packages/runtime/src/dataLoader.ts:      *)
(* the fetcher registry, callDataLoader, the cache, the seeding done by    *)
(* loadInitialDataInClient, init, and the getData accessor that init       *)
(* installs.  JavaScript runs one piece of synchronous code at a time, so  *)
(* every action below is one synchronous run of code between two awaits.   *)
(***************************************************************************)
EXTENDS Integers, Sequences, FiniteSets, TLC

\* ------------------------------------------------------------------ bounds
MaxCalls == 2        \* getData calls made by the page
BatchLen == 2        \* members of a batch-form loader declaration
MaxPlugins == 1      \* runtime plugins handed to init
MaxPromises == 4     \* promises alive at once; getData loads no further beyond it

\* ------------------------------------------------------------- the inputs
AppId == "_app"
RouteIds == {"home", "home_ssg"}
Ids == {AppId} \cup RouteIds
RenderModes == {"SSR", "SSG", "CSR"}

\* JavaScript values, all of one record shape so that any two compare.
Val(t, of, ps) == [t |-> t, of |-> of, ps |-> ps]
Undefined == Val("undefined", "", <<>>)
Falsy == Val("falsy", "", <<>>)              \* 0, '', false or null
Null == Val("null", "", <<>>)
Data(id) == Val("data", id, <<>>)            \* the hydration data of route id
TypeError == Val("error", "TypeError", <<>>) \* calling an undefined fetcher
LoaderError == Val("error", "LoaderError", <<>>)
Truthy(v) == v.t \notin {"undefined", "falsy", "null"}

\* Loader declarations (DataLoaderConfig): a function, a function that
\* returns an array of promises, a descriptor object, or a batch whose
\* members alternate function, descriptor, function, ...
Decls == {"none", "fn", "fnArr", "desc", "batch"}
BatchMembers == [i \in 1..BatchLen |-> IF i % 2 = 1 THEN "fn" ELSE "desc"]
Members(decl) ==
  CASE decl = "batch" -> BatchMembers
    [] decl = "fnArr" -> <<"fn">>
    [] decl = "fn"    -> <<"fn">>
    [] decl = "desc"  -> <<"desc">>
    [] OTHER          -> <<>>

\* What the functions called by one callDataLoader do: member i returns
\* ("return") or throws synchronously ("throw").
Behaviours == [1..BatchLen -> {"return", "throw"}]

VARIABLES
  dataloaderConfig,   \* init's first argument: route id -> loader declaration
  fetcher,            \* options.fetcher given to init, or Undefined
  plugins,            \* state of each plugin's promise
  dataLoaderFetcher,  \* the module-level fetcher slot
  matchedIds,         \* window.__ICE_APP_CONTEXT__, as read by loadInitialDataInClient
  routesData,
  renderMode,
  cache,              \* Map<string, CachedResult>, as a function on its keys
  promises,           \* every promise made by a loader or by the fetcher
  pc,                 \* where init stands
  idx,                \* position of forEach in ids
  caught,             \* the catch block of init ran
  writes,             \* every cache.set so far: key, record, and the id being seeded
  calls,              \* the getData calls made so far
  invoked             \* route id -> callDataLoader runs, by caller

vars == <<dataloaderConfig, fetcher, plugins, dataLoaderFetcher,
          matchedIds, routesData, renderMode, cache, promises, pc, idx, caught,
          writes, calls, invoked>>

\* ----------------------------------------------------------- the promises
Promise(id, i) == [of |-> id, i |-> i, state |-> "pending"]
PState(k) == promises[k].state
\* Promise.all over the promises ps: rejected as soon as one member is,
\* fulfilled once every member is.
AllState(ps) ==
  IF \E i \in 1..Len(ps) : PState(ps[i]) = "rejected" THEN "rejected"
  ELSE IF \A i \in 1..Len(ps) : PState(ps[i]) = "fulfilled" THEN "fulfilled"
  ELSE "pending"
Result(k) == Val("result", promises[k].of, <<k>>)
Results(ps) == Val("results", "", ps)        \* the results of ps, in order
Failure(k) == Val("error", "LoaderError", <<k>>)

\* `await v`: the state and the value of awaiting the JavaScript value v.
AwaitState(v) ==
  CASE v.t = "promise" -> PState(v.ps[1])
    [] v.t = "all"     -> AllState(v.ps)
    [] OTHER           -> "fulfilled"
\* A rejection that is swallowed: the await yields null instead of throwing.
AwaitValueDropsFailure(v) ==
  CASE v.t = "promise" -> IF PState(v.ps[1]) = "rejected" THEN Null ELSE Result(v.ps[1])
    [] v.t = "all"     -> IF AllState(v.ps) = "rejected" THEN Null ELSE Results(v.ps)
    [] OTHER           -> v
AwaitValue(v) ==
  CASE v.t = "promise" -> IF PState(v.ps[1]) = "rejected" THEN Failure(v.ps[1])
                          ELSE Result(v.ps[1])
    [] v.t = "all"     -> IF AllState(v.ps) = "rejected" THEN LoaderError
                          ELSE Results(v.ps)
    [] OTHER           -> v

\* ------------------------------------------------- the fetcher registry
OptionsFetcher == Val("function", "options.fetcher", <<>>)
setFetcher(customFetcher) == dataLoaderFetcher' = customFetcher

\* A member of a declaration throws synchronously: a throwing function, or
\* loadDataByCustomFetcher calling the undefined dataLoaderFetcher.
loadDataByCustomFetcherReturns == FALSE
loadDataByCustomFetcherThrows == dataLoaderFetcher = Undefined
MemberThrows(kind, bi) ==
  \/ kind = "fn" /\ bi = "throw"
  \/ kind = "desc" /\ loadDataByCustomFetcherThrows

\* The promises of n members, made in member order after base earlier ones:
\* what dataLoader.map(...) hands to Promise.all.
loadersReversed(n, base) == [i \in 1..n |-> base + n + 1 - i]
loaders(n, base) == [i \in 1..n |-> base + i]

\* callDataLoader(dataLoader, requestContext) for the declaration of route
\* id, the called functions behaving as b, with base promises made before.
\* Yields whether it threw, the promises it made, and the value returned.
\* The promises of members called before a throwing member are referenced
\* by nothing and are left out.
callDataLoader(dataLoader, id, b, base) ==
  LET ms == Members(dataLoader)
      thrower == {i \in 1..Len(ms) : MemberThrows(ms[i], b[i])}
      first == IF thrower = {} THEN Len(ms) + 1
               ELSE CHOOSE i \in thrower : \A j \in thrower : i <= j
      n == IF thrower # {} THEN 0 ELSE IF dataLoader = "fnArr" THEN BatchLen ELSE Len(ms)
      made == [i \in 1..n |-> Promise(id, i)]
      error == IF first <= Len(ms) /\ ms[first] = "desc" THEN TypeError ELSE LoaderError
  IN  [threw |-> thrower # {},
       made  |-> made,
       value |-> CASE thrower # {}         -> error
                   [] dataLoader = "batch" -> Val("all", id, loaders(n, base))
                   [] dataLoader = "fnArr" -> Val("array", id, loaders(n, base))
                   [] OTHER                -> Val("promise", id, loaders(n, base))]

\* ---------------------------------------------------------------- cache
Record(value, status) == [value |-> value, status |-> status]
CacheSet(c, key, rec) ==
  [k \in DOMAIN c \cup {key} |-> IF k = key THEN rec ELSE c[k]]
CacheKey(id, ssg) == IF ssg THEN id \o "_ssg" ELSE id
Write(key, rec, id) == [key |-> key, rec |-> rec, by |-> id]
ids == <<AppId>> \o matchedIds

\* ----------------------------------------------------------------- Init
NoData == [id \in Ids |-> Undefined]
Injective(s) == \A i, j \in 1..Len(s) : s[i] = s[j] => i = j
MatchedIdLists ==
  {s \in UNION {[1..n -> RouteIds] : n \in 0..Cardinality(RouteIds)} : Injective(s)}
\* The server sends data for '_app' and the matched routes only; each entry
\* is the route's data, and the entry of "home" may also be a falsy value.
RoutesDatas(m) ==
  {r \in [Ids -> {Undefined, Falsy} \cup {Data(id) : id \in Ids}] :
     \A id \in Ids :
       /\ r[id] \in {Undefined, Falsy, Data(id)}
       /\ r[id] = Falsy => id = "home"
       /\ r[id] # Undefined => \E i \in 1..Len(<<AppId>> \o m) : (<<AppId>> \o m)[i] = id}
HasDescriptor(c) == \E id \in Ids : c[id] \in {"desc", "batch"}

\* What init is called with and the page context it finds.
Constructed ==
  /\ plugins = <<>>
  /\ dataLoaderFetcher = Undefined
  /\ cache = [k \in {} |-> Record(Undefined, "")]
  /\ promises = <<>>
  /\ pc = "init"
  /\ idx = 0
  /\ caught = FALSE
  /\ writes = <<>>
  /\ calls = <<>>
  /\ invoked = [id \in Ids |-> [boot |-> 0, getData |-> 0]]
  /\ matchedIds \in MatchedIdLists
  /\ routesData \in RoutesDatas(matchedIds)
  /\ renderMode \in RenderModes

\* Function loaders on any of the routes; '_app' is hydrated only.
Init ==
  /\ Constructed
  /\ dataloaderConfig \in {c \in [Ids -> {"none", "fn"}] : c[AppId] = "none"}
  /\ fetcher = Undefined

\* Loaders of every form on "home", the only route that may be matched, and
\* a function loader or none on '_app'; a fetcher is given or not when a
\* descriptor needs one (nothing else uses it).
InitForms ==
  /\ Constructed
  /\ dataloaderConfig \in {c \in [Ids -> Decls] : c[AppId] \in {"none", "fn"} /\ c["home_ssg"] = "none"}
  /\ fetcher \in {Undefined} \cup {f \in {OptionsFetcher} : HasDescriptor(dataloaderConfig)}
  /\ \A i \in 1..Len(matchedIds) : matchedIds[i] = "home"

\* ----------------------------------------------------------------- init
runtimeModules == MaxPlugins

\* init up to its await: every runtime plugin is called and returns a promise.
RunPlugins ==
  /\ pc = "init"
  /\ plugins' = [i \in 1..runtimeModules |-> "pending"]
  /\ pc' = "await"
  /\ UNCHANGED <<dataloaderConfig, fetcher, dataLoaderFetcher,
                 matchedIds, routesData, renderMode, cache, promises, idx, caught,
                 writes, calls, invoked>>

PluginSettle(i, outcome) ==
  /\ pc = "await"
  /\ i \in 1..Len(plugins)
  /\ plugins[i] = "pending"
  /\ plugins' = [plugins EXCEPT ![i] = outcome]
  /\ UNCHANGED <<dataloaderConfig, fetcher, dataLoaderFetcher,
                 matchedIds, routesData, renderMode, cache, promises, pc, idx,
                 caught, writes, calls, invoked>>

\* A rejection that is swallowed: init goes on to register the fetcher.
PluginsRejectedIgnored ==
  /\ pc = "await"
  /\ \E i \in 1..Len(plugins) : plugins[i] = "rejected"
  /\ pc' = "setFetcher"
  /\ UNCHANGED <<dataloaderConfig, fetcher, plugins,
                 dataLoaderFetcher, matchedIds, routesData, renderMode, cache,
                 promises, idx, caught, writes, calls, invoked>>

\* await Promise.all(...) rejects: init rejects with the plugin's failure.
PluginsRejected ==
  /\ pc = "await"
  /\ \E i \in 1..Len(plugins) : plugins[i] = "rejected"
  /\ pc' = "rejected"
  /\ UNCHANGED <<dataloaderConfig, fetcher, plugins,
                 dataLoaderFetcher, matchedIds, routesData, renderMode, cache,
                 promises, idx, caught, writes, calls, invoked>>

\* The plugins' promises are not awaited.
PluginsResolvedEarly ==
  /\ pc = "await"
  /\ \A i \in 1..Len(plugins) : plugins[i] # "rejected"
  /\ pc' = "setFetcher"
  /\ UNCHANGED <<dataloaderConfig, fetcher, plugins,
                 dataLoaderFetcher, matchedIds, routesData, renderMode, cache,
                 promises, idx, caught, writes, calls, invoked>>

PluginsResolved ==
  /\ pc = "await"
  /\ \A i \in 1..Len(plugins) : plugins[i] = "fulfilled"
  /\ pc' = "setFetcher"
  /\ UNCHANGED <<dataloaderConfig, fetcher, plugins,
                 dataLoaderFetcher, matchedIds, routesData, renderMode, cache,
                 promises, idx, caught, writes, calls, invoked>>

\* if (fetcher) setFetcher(fetcher);
RegisterFetcher ==
  /\ pc = "setFetcher"
  /\ IF fetcher # Undefined THEN setFetcher(fetcher) ELSE UNCHANGED dataLoaderFetcher
  /\ pc' = "hydrate"
  /\ idx' = 1
  /\ UNCHANGED <<dataloaderConfig, fetcher, plugins, matchedIds,
                 routesData, renderMode, cache, promises, caught, writes, calls, invoked>>

\* --------------------------------------------- loadInitialDataInClient
\* After the callback for ids[idx] returns: the next id, or forEach is over.
NextPc == IF idx < Len(ids) THEN "hydrate" ELSE "install"

\* if (renderMode === 'SSR') return; inside if (dataFromSSR)
StopsAlwaysInSSR(dataFromSSR) == renderMode = "SSR"
StopsAfterHydration(dataFromSSR) == Truthy(dataFromSSR) /\ renderMode = "SSR"

\* The hydration half of the forEach callback.
SeedHydrate ==
  /\ pc = "hydrate"
  /\ LET id == ids[idx]
         dataFromSSR == routesData[id]
         key == CacheKey(id, renderMode = "SSG")
         rec == Record(dataFromSSR, "RESOLVED")
     IN  /\ IF Truthy(dataFromSSR)
            THEN cache' = CacheSet(cache, key, rec) /\ writes' = Append(writes, Write(key, rec, id))
            ELSE UNCHANGED <<cache, writes>>
         /\ IF StopsAfterHydration(dataFromSSR)
            THEN pc' = NextPc /\ idx' = idx + 1
            ELSE pc' = "load" /\ idx' = idx
  /\ UNCHANGED <<dataloaderConfig, fetcher, plugins,
                 dataLoaderFetcher, matchedIds, routesData, renderMode, promises,
                 caught, calls, invoked>>

\* Where init goes when loadInitialDataInClient throws: its catch block
\* logs the error and init goes on to install getData.
Uncaught == "rejected"
OnSeedError == "install"

\* The loader half with the throw caught inside the callback: forEach goes
\* on with the next id.
SeedLoadContinues(b) ==
  /\ pc = "load"
  /\ LET id == ids[idx]
         dataLoader == dataloaderConfig[id]
         loader == callDataLoader(dataLoader, id, b, Len(promises))
         rec == Record(loader.value, "LOADING")
     IN  IF dataLoader = "none"
         THEN /\ pc' = NextPc /\ idx' = idx + 1
              /\ UNCHANGED <<cache, writes, promises, caught, invoked>>
         ELSE /\ invoked' = [invoked EXCEPT ![id].boot = @ + 1]
              /\ promises' = promises \o loader.made
              /\ pc' = NextPc /\ idx' = idx + 1
              /\ IF loader.threw
                 THEN caught' = TRUE /\ UNCHANGED <<cache, writes>>
                 ELSE /\ cache' = CacheSet(cache, id, rec)
                      /\ writes' = Append(writes, Write(id, rec, id))
                      /\ UNCHANGED caught
  /\ UNCHANGED <<dataloaderConfig, fetcher, plugins,
                 dataLoaderFetcher, matchedIds, routesData, renderMode, calls>>

\* The loader half of the forEach callback; a synchronous throw leaves
\* forEach and lands in init's catch block.
SeedLoad(b) ==
  /\ pc = "load"
  /\ LET id == ids[idx]
         dataLoader == dataloaderConfig[id]
         loader == callDataLoader(dataLoader, id, b, Len(promises))
         rec == Record(loader.value, "LOADING")
     IN  IF dataLoader = "none"
         THEN /\ pc' = NextPc /\ idx' = idx + 1
              /\ UNCHANGED <<cache, writes, promises, caught, invoked>>
         ELSE /\ invoked' = [invoked EXCEPT ![id].boot = @ + 1]
              /\ promises' = promises \o loader.made
              /\ IF loader.threw
                 THEN /\ caught' = TRUE /\ pc' = OnSeedError
                      /\ UNCHANGED <<cache, writes, idx>>
                 ELSE /\ cache' = CacheSet(cache, id, rec)
                      /\ writes' = Append(writes, Write(id, rec, id))
                      /\ pc' = NextPc /\ idx' = idx + 1
                      /\ UNCHANGED caught
  /\ UNCHANGED <<dataloaderConfig, fetcher, plugins,
                 dataLoaderFetcher, matchedIds, routesData, renderMode, calls>>

\* The handle is installed while forEach is still running.
InstallsWhileSeeding ==
  /\ pc \in {"hydrate", "load", "install"}
  /\ pc' = "installed"
  /\ UNCHANGED <<dataloaderConfig, fetcher, plugins,
                 dataLoaderFetcher, matchedIds, routesData, renderMode, cache,
                 promises, idx, caught, writes, calls, invoked>>

\* window.__ICE_DATA_LOADER__ = { getData }
Install ==
  /\ pc = "install"
  /\ pc' = "installed"
  /\ UNCHANGED <<dataloaderConfig, fetcher, plugins,
                 dataLoaderFetcher, matchedIds, routesData, renderMode, cache,
                 promises, idx, caught, writes, calls, invoked>>

\* -------------------------------------------------------------- getData
\* What a getData call returns: Return(x) is fulfilled with x, Throw(x) is
\* rejected with x, Await(v) follows `await v`, AwaitAll(v) follows
\* `await Promise.all(v)`.
Return(x) == [k |-> "return", x |-> x]
Throw(x) == [k |-> "throw", x |-> x]
Await(v) == [k |-> "await", x |-> v]
AwaitAll(v) == [k |-> "all", x |-> v]

\* getData on a record found in the cache.
HitBare(result) ==
  [path |-> result.status, made |-> <<>>,
   ret |-> IF result.status = "RESOLVED" THEN Return(result.value)
           ELSE Await(result.value)]
Hit(result) ==
  [path |-> result.status, made |-> <<>>,
   ret |-> IF result.status = "RESOLVED" THEN Return(result)
           ELSE IF result.value.t = "array" THEN AwaitAll(result.value)
           ELSE Await(result.value)]

\* getData when the cache holds no record at the key.
MissShared(id, b) ==
  IF \E n \in 1..Len(calls) : calls[n].id = id /\ calls[n].path = "load"
  THEN LET n == CHOOSE n \in 1..Len(calls) : calls[n].id = id /\ calls[n].path = "load"
       IN  [path |-> "LOADING", made |-> <<>>, ret |-> calls[n].ret]
  ELSE LET loader == callDataLoader(dataloaderConfig[id], id, b, Len(promises))
       IN  [path |-> "load", made |-> loader.made,
            ret |-> IF loader.threw THEN Throw(loader.value) ELSE Await(loader.value)]
MissLoads(id, b) ==
  LET loader == callDataLoader("fn", id, b, Len(promises))
  IN  [path |-> "load", made |-> loader.made,
       ret |-> IF loader.threw THEN Throw(loader.value) ELSE Await(loader.value)]
Miss(id, b) ==
  LET dataLoader == dataloaderConfig[id]
      loader == callDataLoader(dataLoader, id, b, Len(promises))
  IN  IF dataLoader = "none"
      THEN [path |-> "null", made |-> <<>>, ret |-> Return(Null)]
      ELSE [path |-> "load", made |-> loader.made,
            ret |-> IF loader.threw THEN Throw(loader.value) ELSE Await(loader.value)]

\* getData that falls back on the plain key when the '<id>_ssg' key is empty.
getDataFallsBack(id, ssg, b) ==
  LET key == CacheKey(id, ssg)
  IN  IF key \in DOMAIN cache THEN Hit(cache[key])
      ELSE IF id \in DOMAIN cache THEN Hit(cache[id])
      ELSE Miss(id, b)

\* The body of getData up to its await, for route id and options.ssg.
getData(id, ssg, b) ==
  LET key == CacheKey(id, ssg)
  IN  IF key \in DOMAIN cache THEN Hit(cache[key]) ELSE Miss(id, b)

GetData(id, ssg, b) ==
  /\ pc = "installed"
  /\ Len(calls) < MaxCalls
  /\ calls # <<>> => calls[1].id = id
  /\ LET r == getData(id, ssg, b)
     IN  /\ Len(promises) + Len(r.made) <= MaxPromises
         /\ calls' = Append(calls, [id |-> id, ssg |-> ssg, path |-> r.path, ret |-> r.ret])
         /\ promises' = promises \o r.made
         /\ invoked' = IF r.path = "load" THEN [invoked EXCEPT ![id].getData = @ + 1]
                       ELSE invoked
  /\ UNCHANGED <<dataloaderConfig, fetcher, plugins,
                 dataLoaderFetcher, matchedIds, routesData, renderMode, cache, pc,
                 idx, caught, writes>>

\* The state and the value of the promise a getData call returned.
CallState(c) ==
  CASE c.ret.k = "return" -> "fulfilled"
    [] c.ret.k = "throw"  -> "rejected"
    [] c.ret.k = "all"    -> AllState(c.ret.x.ps)
    [] OTHER              -> AwaitState(c.ret.x)
CallValue(c) ==
  CASE c.ret.k \in {"return", "throw"} -> c.ret.x
    [] c.ret.k = "all" -> IF AllState(c.ret.x.ps) = "rejected" THEN LoaderError
                          ELSE Results(c.ret.x.ps)
    [] OTHER           -> AwaitValue(c.ret.x)

\* A settling promise that also turns the records holding it into RESOLVED
\* ones, as a `.then` on the stored value would.
SettleResolvesRecord(k, outcome) ==
  /\ pc = "installed"
  /\ k \in 1..Len(promises)
  /\ promises[k].state = "pending"
  /\ promises' = [promises EXCEPT ![k].state = outcome]
  /\ cache' = [key \in DOMAIN cache |->
                 IF /\ cache[key].status = "LOADING"
                    /\ outcome = "fulfilled"
                    /\ \E i \in 1..Len(cache[key].value.ps) : cache[key].value.ps[i] = k
                 THEN Record(Val("result", promises[k].of, <<k>>), "RESOLVED")
                 ELSE cache[key]]
  /\ UNCHANGED <<dataloaderConfig, fetcher, plugins,
                 dataLoaderFetcher, matchedIds, routesData, renderMode, pc,
                 idx, caught, writes, calls, invoked>>

\* A promise made by a loader or by the fetcher settles.
Settle(k, outcome) ==
  /\ pc = "installed"
  /\ k \in 1..Len(promises)
  /\ promises[k].state = "pending"
  /\ promises' = [promises EXCEPT ![k].state = outcome]
  /\ UNCHANGED <<dataloaderConfig, fetcher, plugins,
                 dataLoaderFetcher, matchedIds, routesData, renderMode, cache, pc,
                 idx, caught, writes, calls, invoked>>

Outcomes == {"fulfilled", "rejected"}

Next ==
  \/ RunPlugins
  \/ \E i \in 1..MaxPlugins, o \in Outcomes : PluginSettle(i, o)
  \/ PluginsRejected
  \/ PluginsResolved
  \/ RegisterFetcher
  \/ SeedHydrate
  \/ \E b \in Behaviours : SeedLoad(b)
  \/ Install
  \/ \E id \in Ids, ssg \in BOOLEAN, b \in Behaviours : GetData(id, ssg, b)
  \/ \E k \in 1..Len(promises), o \in Outcomes : Settle(k, o)

Spec == Init /\ [][Next]_vars
SpecForms == InitForms /\ [][Next]_vars

\* ------------------------------------------------------------ the claims
Installed == pc = "installed"
SeedingOver == pc \in {"install", "installed"}
CallIdx == 1..Len(calls)
Matched(id) == \E i \in 1..Len(matchedIds) : matchedIds[i] = id
\* How a stored pending value v settles once getData has unwrapped it: a
\* sequence of pending values settles as the sequence of their results.
SettledState(v) == IF v.t = "array" THEN AllState(v.ps) ELSE AwaitState(v)
SettledValue(v) ==
  IF v.t = "array"
  THEN IF AllState(v.ps) = "rejected" THEN LoaderError ELSE Results(v.ps)
  ELSE AwaitValue(v)

\* C1: for every id for which seeding wrote a LOADING record, the loader is
\* invoked exactly once, by the bootstrap: no getData(id) call without the
\* ssg option invokes it again, and every such call settles as the pending
\* value of that one invocation does.
C1_SeededLoadIsShared ==
  \A w \in 1..Len(writes) : writes[w].rec.status = "LOADING" =>
    LET id == writes[w].by
        v == writes[w].rec.value
    IN  /\ invoked[id].boot = 1
        /\ \A n \in CallIdx : calls[n].id = id /\ ~calls[n].ssg =>
             /\ calls[n].path # "load"
             /\ CallState(calls[n]) = SettledState(v)
             /\ CallValue(calls[n]) = SettledValue(v)
        /\ (\A n \in CallIdx : calls[n].id = id => ~calls[n].ssg) => invoked[id].getData = 0

\* C2: under SSR, for every id of ['_app'] ++ matchedIds that has a
\* routesData entry, the bootstrap never invokes the id's loader and writes
\* no record for it but the RESOLVED record holding routesData[id].
C2_SsrEntryStopsTheLoader ==
  renderMode = "SSR" =>
    \A i \in 1..Len(ids) : routesData[ids[i]] # Undefined =>
      /\ invoked[ids[i]].boot = 0
      /\ \A w \in 1..Len(writes) : writes[w].by = ids[i] =>
           writes[w] = Write(ids[i], Record(routesData[ids[i]], "RESOLVED"), ids[i])

\* The example of the specification: matchedIds = ['home'], routesData =
\* { _app: {user:'x'} }, renderMode 'SSR', loader config { home: fetchHomeData }.
Example ==
  /\ matchedIds = <<"home">>
  /\ routesData = [NoData EXCEPT ![AppId] = Data(AppId)]
  /\ renderMode = "SSR"
  /\ dataloaderConfig = [id \in Ids |-> IF id = "home" THEN "fn" ELSE "none"]

\* C3, as claimed: in the example the bootstrap never invokes fetchHomeData.
C3_ExampleNeverLoadsHome == Example => invoked["home"].boot = 0

\* C3, amended: in the example the bootstrap, run to completion, invokes
\* fetchHomeData exactly once ('home' has no routesData entry, so SSR does
\* not stop its processing); '_app', which has an entry, is hydrated as
\* RESOLVED and gets no loader invocation.
C3_ExampleLoadsHomeOnce ==
  Example /\ SeedingOver =>
    /\ invoked["home"].boot = 1
    /\ invoked[AppId].boot = 0
    /\ AppId \in DOMAIN cache /\ cache[AppId] = Record(Data(AppId), "RESOLVED")
    /\ ~caught => "home" \in DOMAIN cache /\ cache["home"].status = "LOADING"
C3_Witness ==
  /\ Example /\ Installed /\ invoked["home"].boot = 1
  /\ "home" \in DOMAIN cache /\ cache["home"].status = "LOADING"

\* C4: under SSG, for every matched route id that has a routesData entry, a
\* getData(id, {ssg: true}) call made after bootstrap resolves to the record
\* {value: routesData[id], status: 'RESOLVED'} and invokes no loader.
C4_SsgEntryIsServed ==
  renderMode = "SSG" =>
    \A n \in CallIdx :
      calls[n].ssg /\ Matched(calls[n].id) /\ routesData[calls[n].id] # Undefined =>
        /\ calls[n].path # "load"
        /\ calls[n].ret = Return(Record(routesData[calls[n].id], "RESOLVED"))

\* C5: for an id that has a loader declaration but no cache record after
\* bootstrap, every getData(id) call invokes the loader once more: n calls
\* cause n invocations, and overlapping calls wait for different promises.
C5_NoOnDemandDedup ==
  Installed =>
    \A id \in Ids : dataloaderConfig[id] # "none" /\ id \notin DOMAIN cache =>
      LET plain == {n \in CallIdx : calls[n].id = id /\ ~calls[n].ssg}
          flagged == {n \in CallIdx : calls[n].id = id /\ calls[n].ssg /\ calls[n].path = "load"}
      IN  /\ \A n \in plain : calls[n].path = "load"
          /\ invoked[id].getData = Cardinality(plain) + Cardinality(flagged)
          /\ \A m, n \in plain :
               m # n /\ calls[m].ret.k = "await" /\ calls[n].ret.k = "await" =>
                 \A i \in 1..Len(calls[m].ret.x.ps), j \in 1..Len(calls[n].ret.x.ps) :
                   calls[m].ret.x.ps[i] # calls[n].ret.x.ps[j]
C5_Witness ==
  /\ Installed
  /\ \E id \in Ids :
       /\ dataloaderConfig[id] # "none" /\ id \notin DOMAIN cache
       /\ Len(calls) = MaxCalls
       /\ \A n \in CallIdx : calls[n].id = id /\ ~calls[n].ssg /\ CallState(calls[n]) = "pending"
       /\ invoked[id].getData = MaxCalls

\* C6: when the record at the selected key is RESOLVED, getData resolves
\* with the whole record; when it is LOADING, getData settles as the stored
\* pending value does (a stored sequence of pending values as the ordered
\* sequence of their results) and never resolves with the record.
C6_ReturnShape ==
  \A n \in CallIdx :
    LET c == calls[n]
        key == CacheKey(c.id, c.ssg)
    IN  key \in DOMAIN cache =>
          /\ cache[key].status = "RESOLVED" =>
               CallState(c) = "fulfilled" /\ CallValue(c) = cache[key]
          /\ cache[key].status = "LOADING" =>
               /\ CallState(c) = SettledState(cache[key].value)
               /\ CallValue(c) = SettledValue(cache[key].value)
               /\ CallValue(c) # cache[key]
C6_Witness ==
  \E m, n \in CallIdx :
    /\ calls[m].path = "RESOLVED" /\ CallValue(calls[m]).status = "RESOLVED"
    /\ calls[n].path = "LOADING" /\ calls[n].ret.x.t = "array"
    /\ CallState(calls[n]) = "fulfilled" /\ CallValue(calls[n]) = Results(calls[n].ret.x.ps)

\* C7: an error raised while seeding (a throwing loader, a descriptor with
\* no fetcher) never makes init fail: init rejects only on a rejected
\* plugin, before any seeding, and after a caught error it goes on to
\* install getData.
C7_BestEffortBootstrap ==
  /\ caught => pc \in {"install", "installed"}
  /\ pc = "install" => ENABLED Install
  /\ pc = "rejected" => ~caught /\ idx = 0 /\ \E i \in 1..Len(plugins) : plugins[i] = "rejected"
C7_Witness ==
  /\ caught /\ Installed
  /\ dataloaderConfig["home"] = "desc" /\ dataLoaderFetcher = Undefined

\* C8: a batch-form loader resolves to one result per member, result i
\* being the result of member i in declaration order, whatever the order in
\* which the members settle, and only once every member has resolved.
C8_BatchKeepsOrder ==
  \A n \in CallIdx :
    calls[n].ret.k = "await" /\ calls[n].ret.x.t = "all" =>
      LET ps == calls[n].ret.x.ps
      IN  /\ Len(ps) = Len(BatchMembers)
          /\ \A i \in 1..Len(ps) : promises[ps[i]].i = i /\ promises[ps[i]].of = calls[n].ret.x.of
          /\ CallState(calls[n]) = "fulfilled" <=> \A i \in 1..Len(ps) : PState(ps[i]) = "fulfilled"
          /\ CallState(calls[n]) = "fulfilled" => CallValue(calls[n]) = Results(ps)
C8_Witness ==
  \E n \in CallIdx :
    /\ calls[n].ret.k = "await" /\ calls[n].ret.x.t = "all"
    /\ CallState(calls[n]) = "fulfilled"
    /\ CallValue(calls[n]) = Results(calls[n].ret.x.ps)

\* C9: with no fetcher ever registered, a getData(id) call that loads a
\* descriptor-form loader (or a batch holding a descriptor) on demand
\* yields a rejected pending value, never a resolved one; for a descriptor
\* the failure is the error of calling the missing fetcher.
C9_NoFetcherRejects ==
  \A n \in CallIdx :
    /\ calls[n].path = "load"
    /\ dataloaderConfig[calls[n].id] \in {"desc", "batch"}
    /\ dataLoaderFetcher = Undefined
    => /\ CallState(calls[n]) = "rejected"
       /\ CallValue(calls[n]).t = "error"
       /\ dataloaderConfig[calls[n].id] = "desc" => CallValue(calls[n]) = TypeError
C9_Witness ==
  \E n \in CallIdx :
    /\ calls[n].path = "load" /\ dataloaderConfig[calls[n].id] = "desc"
    /\ dataLoaderFetcher = Undefined /\ CallValue(calls[n]) = TypeError

\* C10: getData(id), with or without the ssg option, for an id with no
\* loader declaration and no record at the selected key resolves to null,
\* is not an error and invokes no loader.
C10_NoLoaderNoRecordIsNull ==
  \A n \in CallIdx :
    dataloaderConfig[calls[n].id] = "none" /\ CacheKey(calls[n].id, calls[n].ssg) \notin DOMAIN cache
    => /\ calls[n].path = "null"
       /\ CallState(calls[n]) = "fulfilled" /\ CallValue(calls[n]) = Null
       /\ invoked[calls[n].id].getData = 0
C10_Witness ==
  \E m, n \in CallIdx :
    /\ dataloaderConfig[calls[m].id] = "none"
    /\ calls[m].ssg /\ ~calls[n].ssg
    /\ CallValue(calls[m]) = Null /\ CallValue(calls[n]) = Null

\* What init and seeding do after the plugins: nothing of it has happened.
NothingSeeded ==
  /\ dataLoaderFetcher = Undefined
  /\ cache = [k \in {} |-> Record(Undefined, "")]
  /\ writes = <<>>
  /\ promises = <<>>
  /\ \A id \in Ids : invoked[id].boot = 0 /\ invoked[id].getData = 0
  /\ calls = <<>>
  /\ ~caught
Seeding == pc \in {"hydrate", "load"}
SeedingFinished == caught \/ idx = Len(ids) + 1

\* C11: getData can be called only once it is installed, and it is
\* installed only when seeding has finished: every id of ['_app'] ++
\* matchedIds was processed, or a caught error stopped seeding.  While
\* forEach is running no getData call exists or can be made.
C11_GetDataAfterSeeding ==
  /\ calls # <<>> => Installed
  /\ (ENABLED (\E id \in Ids, ssg \in BOOLEAN, b \in Behaviours : GetData(id, ssg, b))) => Installed
  /\ Installed => SeedingFinished
  /\ Seeding => calls = <<>> /\ ~SeedingFinished
C11_Witness ==
  /\ Installed /\ ~caught /\ Len(ids) = 3 /\ idx = 4
  /\ Len(writes) >= 2 /\ calls # <<>> /\ calls[1].path = "LOADING"

C13_PluginFailureAborts ==
  (\E i \in 1..Len(plugins) : plugins[i] = "rejected") =>
    /\ pc \in {"await", "rejected"}
    /\ pc = "await" => ENABLED PluginsRejected /\ ~ENABLED PluginsResolved
    /\ NothingSeeded
    /\ ~(ENABLED (\E id \in Ids, ssg \in BOOLEAN, b \in Behaviours : GetData(id, ssg, b)))
C13_Witness ==
  /\ pc = "rejected" /\ \E i \in 1..Len(plugins) : plugins[i] = "rejected"
  /\ fetcher = OptionsFetcher /\ dataloaderConfig["home"] = "desc" /\ matchedIds = <<"home">>

\* The last cache.set on key k, or 0.
LastWrite(k) ==
  IF \E w \in 1..Len(writes) : writes[w].key = k
  THEN CHOOSE w \in 1..Len(writes) :
         writes[w].key = k /\ \A x \in 1..Len(writes) : writes[x].key = k => x <= w
  ELSE 0
Rejected(v) == \E i \in 1..Len(v.ps) : PState(v.ps[i]) = "rejected"

\* C14: when the pending value of a LOADING record in the cache has
\* rejected, every getData(id) call for the record's id, made before or
\* after the rejection, is rejected with that failure; no such call invokes
\* the loader, which the bootstrap invoked once; and the record is still
\* the one seeding wrote.
C14_RejectionSurfaces ==
  \A k \in DOMAIN cache :
    cache[k].status = "LOADING" /\ Rejected(cache[k].value) =>
      LET v == cache[k].value
      IN  /\ \A n \in CallIdx : calls[n].id = k /\ ~calls[n].ssg =>
               /\ calls[n].path = "LOADING"
               /\ CallState(calls[n]) = "rejected"
               /\ CallValue(calls[n]).t = "error"
               /\ v.t = "promise" => CallValue(calls[n]) = Failure(v.ps[1])
          /\ invoked[k].boot = 1
          /\ (\A n \in CallIdx : calls[n].id = k => ~calls[n].ssg) => invoked[k].getData = 0
          /\ LastWrite(k) # 0 /\ writes[LastWrite(k)] = Write(k, cache[k], k)
C14_Witness ==
  \E k \in DOMAIN cache :
    /\ cache[k].status = "LOADING" /\ cache[k].value.t = "promise" /\ Rejected(cache[k].value)
    /\ Len(calls) = 2 /\ calls[1].id = k /\ ~calls[1].ssg /\ ~calls[2].ssg
    /\ CallValue(calls[1]) = Failure(cache[k].value.ps[1])
    /\ CallValue(calls[2]) = Failure(cache[k].value.ps[1])
    /\ invoked[k].boot = 1 /\ invoked[k].getData = 0

\* C15: under SSG, once the bootstrap is over, every id of ['_app'] ++
\* matchedIds with a routesData entry and a loader declaration has a
\* RESOLVED record holding routesData[id] under '<id>_ssg' and a LOADING
\* record under '<id>'; its loader was invoked exactly once, by the
\* bootstrap; getData(id, {ssg: true}) resolves with the build-time record
\* and getData(id) settles as the loader's pending value does.
C15_SsgTwoPhase ==
  renderMode = "SSG" /\ Installed =>
    \A i \in 1..Len(ids) :
      LET id == ids[i]
          built == Record(routesData[id], "RESOLVED")
      IN  routesData[id] # Undefined /\ dataloaderConfig[id] # "none" =>
            /\ CacheKey(id, TRUE) \in DOMAIN cache /\ cache[CacheKey(id, TRUE)] = built
            /\ id \in DOMAIN cache /\ cache[id].status = "LOADING"
            /\ invoked[id].boot = 1
            /\ \A n \in CallIdx : calls[n].id = id =>
                 IF calls[n].ssg THEN calls[n].ret = Return(built)
                 ELSE /\ calls[n].path = "LOADING"
                      /\ id \in DOMAIN cache
                      /\ CallState(calls[n]) = SettledState(cache[id].value)
                      /\ CallValue(calls[n]) = SettledValue(cache[id].value)

\* C16: cache keys are unique per (route id, render-variant) pair: a
\* getData call of (a, f) reads a key under which only records of (a, f)
\* were stored, never a record seeded for another route id or for the
\* other variant (the static-generation snapshot against the plain record).
SnapshotWrite(w) == w.rec.status = "RESOLVED" /\ renderMode = "SSG"
C16_KeysAreUnique ==
  \A w \in 1..Len(writes), n \in CallIdx :
    writes[w].key = CacheKey(calls[n].id, calls[n].ssg) =>
      /\ writes[w].by = calls[n].id
      /\ calls[n].ssg <=> SnapshotWrite(writes[w])

\* C17: once getData is installed the cache never changes: no step that
\* makes a getData call, on any of its paths, and no settling of a pending
\* value adds, replaces or removes a record; a LOADING record stays LOADING.
C17_GetDataIsReadOnly ==
  [][(Installed \/ calls' # calls) => cache' = cache /\ writes' = writes]_vars
C17_Witness ==
  /\ Installed /\ Len(calls) = 2
  /\ \E k \in DOMAIN cache :
       /\ cache[k].status = "LOADING" /\ SettledState(cache[k].value) = "fulfilled"
       /\ calls[1].id = k /\ calls[1].path = "LOADING" /\ CallState(calls[1]) = "fulfilled"
       /\ calls[2].path = "load" /\ CallState(calls[2]) = "fulfilled"
       /\ writes[LastWrite(k)].rec = cache[k]

\* The position of id in ['_app'] ++ matchedIds, or 0.
Pos(id) == IF \E i \in 1..Len(ids) : ids[i] = id THEN CHOOSE i \in 1..Len(ids) : ids[i] = id ELSE 0
\* Nothing written is undone: the cache is what the writes made, in order.
WritesStand ==
  /\ DOMAIN cache = {writes[w].key : w \in 1..Len(writes)}
  /\ \A key \in DOMAIN cache : cache[key] = writes[LastWrite(key)].rec
LaterLoadersNotInvoked == \A j \in (idx + 1)..Len(ids) : invoked[ids[j]].boot = 0
\* The hydration record of the id at position idx.
HydrationWrite ==
  Write(CacheKey(ids[idx], renderMode = "SSG"), Record(routesData[ids[idx]], "RESOLVED"), ids[idx])

\* C18, as claimed: when the loader of the id at position k throws
\* synchronously during seeding, the records written for positions before
\* k are kept, no record was written for position k or a later one, and
\* the bootstrap invoked no loader of a later position.
C18_NoRecordFromTheThrow ==
  caught =>
    /\ idx \in 1..Len(ids)
    /\ WritesStand
    /\ \A w \in 1..Len(writes) : Pos(writes[w].by) < idx
    /\ LaterLoadersNotInvoked

\* C18, amended: when the loader of the id at position k throws
\* synchronously during seeding, nothing written before the throw is
\* undone; the writes are those of positions before k and, when
\* routesData[k] is truthy and renderMode is not 'SSR', the RESOLVED
\* hydration record of position k itself; no LOADING record was written for
\* position k, no record for a later position, and the bootstrap invoked
\* the loader of position k once and no loader of a later position.
C18_SeedingStopsAtThrow ==
  caught =>
    /\ idx \in 1..Len(ids)
    /\ WritesStand
    /\ \A w \in 1..Len(writes) :
         \/ Pos(writes[w].by) < idx
         \/ /\ writes[w] = HydrationWrite
            /\ Truthy(routesData[ids[idx]]) /\ renderMode # "SSR"
    /\ Truthy(routesData[ids[idx]]) /\ renderMode # "SSR" =>
         \E w \in 1..Len(writes) : writes[w] = HydrationWrite
    /\ invoked[ids[idx]].boot = 1
    /\ LaterLoadersNotInvoked
C18_Witness ==
  /\ caught /\ Installed /\ idx = 2 /\ Len(ids) = 3
  /\ Len(writes) = 2 /\ writes[1].by = AppId /\ writes[2] = HydrationWrite
  /\ dataloaderConfig[ids[3]] = "fn" /\ routesData[ids[3]] # Undefined
  /\ invoked[ids[3]].boot = 0 /\ WritesStand

\* C19: when renderMode is neither 'SSR' nor 'SSG', once the bootstrap is
\* over, for every id of ['_app'] ++ matchedIds with a routesData entry: if
\* the id has a loader declaration, seeding wrote a RESOLVED record under
\* the id and then a LOADING record under the same key, the cache holds the
\* LOADING one, and getData(id) settles as the loader's pending value and
\* never yields the hydration record; with no loader declaration the
\* RESOLVED record remains.
C19_HydrationOverwritten ==
  renderMode \notin {"SSR", "SSG"} /\ Installed =>
    \A i \in 1..Len(ids) :
      LET id == ids[i]
          hydrated == Record(routesData[id], "RESOLVED")
      IN  routesData[id] # Undefined =>
            IF dataloaderConfig[id] # "none"
            THEN /\ \E w, x \in 1..Len(writes) :
                      /\ w < x
                      /\ writes[w] = Write(id, hydrated, id)
                      /\ writes[x].key = id /\ writes[x].rec.status = "LOADING"
                 /\ id \in DOMAIN cache /\ cache[id].status = "LOADING"
                 /\ \A n \in CallIdx : calls[n].id = id /\ ~calls[n].ssg =>
                      /\ calls[n].path = "LOADING"
                      /\ calls[n].ret # Return(hydrated)
            ELSE id \in DOMAIN cache /\ cache[id] = hydrated

\* C20: a getData(id, {ssg: true}) call that finds no record under
\* '<id>_ssg', for an id with a loader declaration, invokes the loader on
\* demand whatever is stored under the plain id; it waits for none of the
\* promises of a LOADING record stored there, and with such a record the
\* loader has then been invoked at least twice.
C20_SsgFlagBypassesDedup ==
  \A n \in CallIdx :
    LET id == calls[n].id
    IN  /\ calls[n].ssg
        /\ CacheKey(id, TRUE) \notin DOMAIN cache
        /\ dataloaderConfig[id] # "none"
        => /\ calls[n].path = "load"
           /\ calls[n].ret.k \in {"await", "throw"}
           /\ invoked[id].getData >= 1
           /\ id \in DOMAIN cache /\ cache[id].status = "LOADING" =>
                /\ invoked[id].boot = 1
                /\ invoked[id].boot + invoked[id].getData >= 2
                /\ calls[n].ret.k = "await" =>
                     \A i \in 1..Len(calls[n].ret.x.ps), j \in 1..Len(cache[id].value.ps) :
                       calls[n].ret.x.ps[i] # cache[id].value.ps[j]
C20_Witness ==
  \E n \in CallIdx :
    /\ calls[n].ssg /\ calls[n].path = "load" /\ calls[n].ret.k = "await"
    /\ CacheKey(calls[n].id, TRUE) \notin DOMAIN cache
    /\ calls[n].id \in DOMAIN cache /\ cache[calls[n].id].status = "LOADING"
    /\ invoked[calls[n].id].boot = 1 /\ invoked[calls[n].id].getData = 1

====
